---- MODULE Spec2Model ----
(***************************************************************************)
(* A model of MonitorPlugin (src/main.py): the monitor registry             *)
(* (monitor_map), the commands 监听 / 取消监听 / 抽查 and the live relay    *)
(* on_group_message.  Texts are sequences of one-character strings, group   *)
(* ids are integers, a Python dict is its entry array in insertion order.  *)
(***************************************************************************)
EXTENDS Integers, Sequences, FiniteSets, TLC

\* ------------------------------------------------------------------ bounds
\* Number of groups in which the 监听 and 取消监听 commands are issued.
MaxObservers == 2
\* Number of command handler calls that run while one on_group_message call
\* is suspended.
MaxInterleaved == 2
\* Number of per-group tasks one 抽查 starts at most.
MaxTasks == 3

\* The groups of the chat platform (ids of 6 digits), and those among them
\* in which the registry commands are issued.
GroupList == <<111111, 222222, 333333>>
Groups == {GroupList[i] : i \in 1..Len(GroupList)}
ObserverGroups == {GroupList[i] : i \in {j \in 1..Len(GroupList) : j <= MaxObservers}}

\* ------------------------------------------------------------------- texts
DigitChars == <<"0", "1", "2", "3", "4", "5", "6", "7", "8", "9">>

DigitSet == {DigitChars[i] : i \in 1..10}

\* str.isdigit() of one character
IsDigitChar(c) == c \in DigitSet

DigitValues == [c \in DigitSet |-> (CHOOSE i \in 1..10 : DigitChars[i] = c) - 1]

DigitVal(c) == DigitValues[c]

\* str.isspace() of one character
IsSpaceChar(c) == c = " "

\* int(s) for a string of decimal digits
RECURSIVE PyInt(_)
PyInt(s) == IF Len(s) = 0 THEN 0
          ELSE 10 * PyInt(SubSeq(s, 1, Len(s) - 1)) + DigitVal(s[Len(s)])

\* str.isdigit(): non-empty and all characters are digits
IsDigit(s) == Len(s) > 0 /\ \A i \in 1..Len(s) : IsDigitChar(s[i])

\* str(n) for n >= 0
RECURSIVE Str(_)
Str(n) == IF n < 10 THEN <<DigitChars[n + 1]>>
          ELSE Str(n \div 10) \o <<DigitChars[(n % 10) + 1]>>

\* str.split(): the maximal runs of non-whitespace characters
RECURSIVE SplitFrom(_, _, _)
SplitFrom(s, i, cur) ==
    IF i > Len(s) THEN (IF Len(cur) > 0 THEN <<cur>> ELSE <<>>)
    ELSE IF IsSpaceChar(s[i])
         THEN (IF Len(cur) > 0 THEN <<cur>> ELSE <<>>) \o SplitFrom(s, i + 1, <<>>)
         ELSE SplitFrom(s, i + 1, Append(cur, s[i]))

Split(s) == SplitFrom(s, 1, <<>>)

\* Number of consecutive digits of s starting at position i, at most max.
RECURSIVE DigitRun(_, _, _)
DigitRun(s, i, max) ==
    IF max = 0 \/ i > Len(s) \/ ~IsDigitChar(s[i]) THEN 0
    ELSE 1 + DigitRun(s, i + 1, max - 1)

\* re.findall(r"\d{6,10}", text): leftmost, greedy, non-overlapping
RECURSIVE FindAllGroupIds(_, _)
FindAllGroupIds(s, i) ==
    IF i > Len(s) THEN <<>>
    ELSE LET n == DigitRun(s, i, 10)
         IN IF n >= 6
            THEN <<SubSeq(s, i, i + n - 1)>> \o FindAllGroupIds(s, i + n)
            ELSE FindAllGroupIds(s, i + 1)

\* extract_group_ids(text)
ExtractGroupIds(text) ==
    LET found == FindAllGroupIds(text, 1)
    IN [k \in 1..Len(found) |-> PyInt(found[k])]

\* Python's `a or b` on strings
StrOr(a, b) == IF Len(a) > 0 THEN a ELSE b

\* A message component as event.get_messages() lists it.
\* (Reply, Plain and Image objects of astrbot; none of them is a dict.)
ReplySeg(text) == [t |-> "obj", kind |-> "Reply", message_str |-> text]
PlainSeg == [t |-> "obj", kind |-> "Plain"]
ImageSeg == [t |-> "obj", kind |-> "Image"]

\* next((seg for seg in event.get_messages() if isinstance(seg, Reply)), None)
HasReply(messages) == \E i \in 1..Len(messages) : messages[i].kind = "Reply"

FirstReply(messages) ==
    messages[CHOOSE i \in 1..Len(messages) :
                /\ messages[i].kind = "Reply"
                /\ \A j \in 1..(i - 1) : messages[j].kind # "Reply"]

\* get_group_ids(event)
GetGroupIds(event) ==
    LET ref_text == IF HasReply(event.messages)
                    THEN FirstReply(event.messages).message_str
                    ELSE <<>>
    IN ExtractGroupIds(StrOr(ref_text, event.message_str))

\* ---------------------------------------------------------- Python values
\* A value carries its Python type in field t: "str" (s: its characters),
\* "list" (l: its items), "dict" (the keys it has are its other fields),
\* "obj" (any other object).  KeyIn(d, k) is `k in d` for a dict d.
StrContent(chars) == [t |-> "str", s |-> chars]
ListContent(items) == [t |-> "list", l |-> items]
KeyIn(d, k) == k \in DOMAIN d

\* str.strip() is non-empty: some character is not whitespace
StripNonEmpty(s) == \E i \in 1..Len(s) : ~IsSpaceChar(s[i])

CqImagePrefix ==
    <<"[", "C", "Q", ":", "i", "m", "a", "g", "e", ",", "f", "i", "l", "e", "=">>

\* Whether the literal lit occurs in s at position i.
LiteralAt(s, i, lit) ==
    /\ i + Len(lit) - 1 <= Len(s)
    /\ SubSeq(s, i, i + Len(lit) - 1) = lit

\* Number of consecutive characters other than "]" from position i on.
RECURSIVE NonBracketRun(_, _)
NonBracketRun(s, i) ==
    IF i > Len(s) \/ s[i] = "]" THEN 0 ELSE 1 + NonBracketRun(s, i + 1)

\* re.findall(r"\[CQ:image,file=([^\]]+)\]", msg_content)
RECURSIVE FindAllCqImages(_, _)
FindAllCqImages(s, i) ==
    IF i > Len(s) THEN <<>>
    ELSE IF LiteralAt(s, i, CqImagePrefix)
         THEN LET b == i + Len(CqImagePrefix)
                  n == NonBracketRun(s, b)
              IN IF n >= 1 /\ b + n <= Len(s)
                 THEN <<SubSeq(s, b, b + n - 1)>> \o FindAllCqImages(s, b + n + 1)
                 ELSE FindAllCqImages(s, i + 1)
         ELSE FindAllCqImages(s, i + 1)

\* data.get("url") or data.get("file"); <<>> stands for a falsy result
UrlOrFile(data) ==
    IF KeyIn(data, "url") /\ Len(data.url) > 0 THEN data.url
    ELSE IF KeyIn(data, "file") THEN data.file
    ELSE <<>>

\* The loop of extract_image_urls over a segment list, from item i on; an
\* item whose data is no dict raises, which ends the loop with what it has.
RECURSIVE SegmentImageUrls(_, _)
SegmentImageUrls(l, i) ==
    IF i > Len(l) THEN <<>>
    ELSE LET segment == l[i]
         IN IF segment.t = "dict" /\ KeyIn(segment, "type") /\ segment.type = "image"
            THEN LET data == IF KeyIn(segment, "data") THEN segment.data
                             ELSE [t |-> "dict"]
                 IN IF data.t # "dict" THEN <<>>
                    ELSE LET url == UrlOrFile(data)
                         IN (IF Len(url) > 0 THEN <<url>> ELSE <<>>)
                            \o SegmentImageUrls(l, i + 1)
            ELSE SegmentImageUrls(l, i + 1)

\* extract_image_urls(message_data)
ExtractImageUrls(message_data) ==
    IF ~KeyIn(message_data, "message") THEN <<>>
    ELSE LET msg_content == message_data.message
         IN IF msg_content.t = "list" THEN SegmentImageUrls(msg_content.l, 1)
            ELSE IF msg_content.t = "str" THEN FindAllCqImages(msg_content.s, 1)
            ELSE <<>>

TextSegment(chars) == [t |-> "dict", type |-> "text", data |-> [t |-> "dict", text |-> chars]]
ImageSegment(url) == [t |-> "dict", type |-> "image", data |-> [t |-> "dict", url |-> url]]

\* The content conversion of build_forward_nodes: the content a node gets.
NodeContent(msg, include_images) ==
    LET content == msg.message
        image_urls == IF include_images THEN ExtractImageUrls(msg) ELSE <<>>
    IN IF Len(image_urls) > 0
       THEN ListContent(
                (IF content.t = "str" /\ StripNonEmpty(content.s)
                 THEN <<TextSegment(content.s)>> ELSE <<>>)
                \o [k \in 1..Len(image_urls) |-> ImageSegment(image_urls[k])])
       ELSE content

\* The default nickname "未知用户".
UnknownUser == "unknown_user"

\* One pass of the loop body of build_forward_nodes: the nodes (none or one)
\* that record msg adds.  user_id 0 stands for no sender filter (None and 0
\* are both falsy); sender.get on a sender that is no dict raises, and the
\* record is skipped.
NodesOfRecord(msg, user_id, include_images) ==
    IF ~KeyIn(msg, "sender") \/ ~KeyIn(msg, "message") THEN <<>>
    ELSE LET sender == msg.sender
         IN IF sender.t # "dict" THEN <<>>
            ELSE IF user_id # 0 /\ (~KeyIn(sender, "user_id") \/ sender.user_id # user_id)
            THEN <<>>
            ELSE <<[type |-> "node",
                    data |-> [name |-> IF KeyIn(sender, "nickname")
                                       THEN sender.nickname ELSE UnknownUser,
                              uin |-> IF KeyIn(sender, "user_id")
                                      THEN sender.user_id ELSE 0,
                              content |-> NodeContent(msg, include_images)]]>>

\* build_forward_nodes(messages, user_id, include_images)
\* A variant of BuildForwardNodes without the try/except around the loop
\* body: the first record that adds no node ends the loop.
RECURSIVE BuildForwardNodesAbort(_, _, _)
BuildForwardNodesAbort(messages, user_id, include_images) ==
    IF Len(messages) = 0 THEN <<>>
    ELSE LET nodes == NodesOfRecord(Head(messages), user_id, include_images)
         IN IF Len(nodes) = 0 THEN <<>>
            ELSE nodes \o BuildForwardNodesAbort(Tail(messages), user_id, include_images)

RECURSIVE BuildForwardNodes(_, _, _)
BuildForwardNodes(messages, user_id, include_images) ==
    IF Len(messages) = 0 THEN <<>>
    ELSE NodesOfRecord(Head(messages), user_id, include_images)
         \o BuildForwardNodes(Tail(messages), user_id, include_images)

\* ------------------------------------------------------------ monitor_map
\* self.monitor_map is a dict: an array of entries in insertion order.
\* Overwriting a key keeps its place, a new key goes to the end, and a
\* deleted entry leaves a hole that stays until the dict is resized.
Hole == [key |-> 0, val |-> 0]

DictIndex(m, k) == CHOOSE i \in 1..Len(m) : m[i].key = k

\* k in m
DictHas(m, k) == \E i \in 1..Len(m) : m[i].key = k

\* m[k]
DictGet(m, k) == m[DictIndex(m, k)].val

\* len(m)
DictUsed(m) == Cardinality({i \in 1..Len(m) : m[i] # Hole})

DictKeys(m) == {m[i].key : i \in {j \in 1..Len(m) : m[j] # Hole}}

\* A resize of the dict: the entries are copied to a new array, without the
\* holes.
DictResize(m) == SelectSeq(m, LAMBDA e : e # Hole)

\* A variant of DictSet in which a key that is present keeps its value.
DictSetKeep(m, k, v) ==
    IF DictHas(m, k) THEN m ELSE Append(m, [key |-> k, val |-> v])

\* m[k] = v
DictSet(m, k, v) ==
    IF DictHas(m, k) THEN [m EXCEPT ![DictIndex(m, k)].val = v]
    ELSE Append(m, [key |-> k, val |-> v])

\* The arrays m[k] = v can leave: inserting a new key resizes the dict first
\* when its array has no free slot left, which depends on the insertions
\* made since its last resize.
DictSetOutcomes(m, k, v) ==
    IF DictHas(m, k) THEN {DictSet(m, k, v)}
    ELSE {DictSet(m, k, v), DictSet(DictResize(m), k, v)}

\* A variant of DictDel that removes the oldest entry, whatever its key.
DictDelOldest(m, k) ==
    [m EXCEPT ![CHOOSE i \in 1..Len(m) : m[i] # Hole /\ \A j \in 1..(i - 1) : m[j] = Hole] = Hole]

\* del m[k]
DictDel(m, k) == [m EXCEPT ![DictIndex(m, k)] = Hole]

\* iter(m.items()): the next array index to look at, the size of the dict
\* when the iterator was made and the number of items still to be yielded.
DictIter(m) == [pos |-> 1, used |-> DictUsed(m), len |-> DictUsed(m)]

RECURSIVE SkipHoles(_, _)
SkipHoles(m, i) == IF i <= Len(m) /\ m[i] = Hole THEN SkipHoles(m, i + 1) ELSE i

\* next(it) on the items iterator of m: an item, StopIteration ("stop"), or
\* RuntimeError ("raise": the dictionary changed size, or its keys changed,
\* during iteration).
IterNext(m, it) ==
    IF it.used # DictUsed(m) THEN [out |-> "raise", it |-> it]
    ELSE LET i == SkipHoles(m, it.pos)
         IN IF i > Len(m) THEN [out |-> "stop", it |-> it]
            ELSE IF it.len = 0 THEN [out |-> "raise", it |-> it]
            ELSE [out |-> "item", key |-> m[i].key, val |-> m[i].val,
                  it |-> [pos |-> i + 1, used |-> it.used, len |-> it.len - 1]]

\* The observers whose registry entry is the group s.
Observers(m, s) == {k \in DictKeys(m) : DictGet(m, k) = s}

\* ------------------------------------------------------------------ state
VARIABLES
    monitor_map,   \* self.monitor_map: observer group -> monitored group
    relay,         \* the on_group_message call in progress or just ended
    sends,         \* the send_group_forward_msg calls of that call, in order
    failed,        \* the observers for which a send of that call raised
    stable,        \* the observers mapped to its source group since it began
    interleaved,   \* the number of command handler calls made meanwhile
    cmd,           \* the command handler call the latest step made, if any
    audit,         \* the check_messages call in progress, or the last one
    tasks,         \* its check_single tasks, one per source group
    resolve,       \* a get_group_ids call: its event and what it returned
    build,         \* a build_forward_nodes call: its arguments and its nodes
    extract,       \* an extract_group_ids call: its text and what it returned
    replying       \* the reply call in progress, or the last one

regVars == <<monitor_map, relay, sends, failed, stable, interleaved, cmd>>
auditVars == <<audit, tasks>>
vars ==
    <<monitor_map, relay, sends, failed, stable, interleaved, cmd, audit, tasks, resolve,
      build, extract, replying>>

\* ----------------------------------------------------------------- events
\* The text of a command word (its characters are one symbol that is neither
\* a digit nor whitespace).
CmdWord(name) == <<name>>

SomeText == <<"h", "i">>

\* event.get_group_id() is the group's id as text, "" in a private chat.
GroupContexts == {Str(g) : g \in ObserverGroups} \cup {<<>>}

\* The events the 监听 command is issued with: the command alone, with a
\* group id after it, or quoting a message that names a group.
StartMonitorEvents ==
    {[group_id |-> c, message_str |-> CmdWord("jianting") \o tail, messages |-> <<PlainSeg>>] :
        c \in GroupContexts, tail \in {<<>>} \cup {<<" ">> \o Str(g) : g \in Groups}}
    \cup {[group_id |-> c, message_str |-> CmdWord("jianting"),
           messages |-> <<ReplySeg(Str(g)), PlainSeg>>] :
            c \in GroupContexts, g \in Groups}

\* The events the 取消监听 command is issued with.
StopMonitorEvents ==
    {[group_id |-> c, message_str |-> CmdWord("quxiaojianting"), messages |-> <<PlainSeg>>] :
        c \in GroupContexts}

DictSender == [t |-> "dict", user_id |-> 7, nickname |-> "Alice"]
OtherSender == [t |-> "obj"]

PlainBody == [messages |-> <<PlainSeg>>, message_str |-> SomeText]

\* The bodies of live messages: text, text quoting a message, a lone image.
LiveBodies ==
    {PlainBody,
     [messages |-> <<ReplySeg(SomeText), PlainSeg>>, message_str |-> SomeText],
     [messages |-> <<ImageSeg>>, message_str |-> <<>>]}

\* The live group messages the host hands to on_group_message.
LiveEvent(a, g, b) ==
    [aiocqhttp |-> a, group_id |-> Str(g), sender |-> DictSender, sender_id |-> Str(7),
     messages |-> b.messages, message_str |-> b.message_str]

LiveEvents ==
    {LiveEvent(TRUE, g, b) : g \in Groups, b \in LiveBodies}
    \cup {LiveEvent(FALSE, g, PlainBody) : g \in Groups}

\* --------------------------------------------------------------- results
\* event.plain_result(...) texts:
\*   MsgNoMonitorTarget  "未指定要监听的群号"
\*   MsgMonitorStarted   "开始监听群 {target_group}"
\*   MsgMonitorStopped   "已取消对群 {target} 的监听"
\*   MsgNotMonitoring    "当前群未设置监听"
\*   MsgFailed           "执行失败: {e}"
\*   MsgNoAuditTarget    "未指定要抽查的群号"
\*   MsgAuditDone        "抽查完成"
MsgNoMonitorTarget == "no_monitor_target"
MsgMonitorStarted == "monitor_started"
MsgMonitorStopped == "monitor_stopped"
MsgNotMonitoring == "not_monitoring"
MsgFailed == "failed"
MsgNoAuditTarget == "no_audit_target"
MsgAuditDone == "audit_done"

\* A result: its text and the values formatted into it.
PlainResult(text, args) == [text |-> text, args |-> args]

\* A variant of Handled for a handler without its finally clause.
HandledUnstopped(handler, event, results) ==
    [handler |-> handler, group_id |-> event.group_id, results |-> results, stopped |-> 0]

\* A command handler call that ran to its end: the results it yielded and
\* the number of event.stop_event() calls it made.
Handled(handler, event, results) ==
    [handler |-> handler, group_id |-> event.group_id, results |-> results, stopped |-> 1]

NoCommand == [handler |-> "none", group_id |-> <<>>, results |-> <<>>, stopped |-> 0]

\* ------------------------------------------------------------- live relay
\* msg_data of on_group_message
LiveMsgData(event) ==
    [sender |-> [t |-> "dict",
                 user_id |-> IF event.sender.t = "dict"
                             THEN (IF KeyIn(event.sender, "user_id")
                                   THEN event.sender.user_id ELSE 0)
                             ELSE PyInt(event.sender_id),
                 nickname |-> IF event.sender.t = "dict" /\ KeyIn(event.sender, "nickname")
                              THEN event.sender.nickname ELSE UnknownUser],
     message |-> ListContent(event.messages)]

\* nodes of on_group_message
LiveNodes(event) == BuildForwardNodes(<<LiveMsgData(event)>>, 0, TRUE)

\* A relay that has ended: by StopIteration, or (error) by the RuntimeError
\* of the iterator, which the outer except logs.
RelayDone(event, error) ==
    [pc |-> "done", event |-> event, it |-> DictIter(<<>>), monitor_group |-> 0,
     error |-> error]

\* A variant of RelayLoop in which the source group is compared with
\* monitor_group.
RECURSIVE RelayLoopByKey(_, _, _, _)
RelayLoopByKey(m, event, source_group, it) ==
    LET n == IterNext(m, it)
    IN IF n.out = "raise" THEN RelayDone(event, TRUE)
       ELSE IF n.out = "stop" THEN RelayDone(event, FALSE)
       ELSE IF source_group = n.key /\ Len(LiveNodes(event)) > 0
       THEN [pc |-> "sending", event |-> event, it |-> n.it, monitor_group |-> n.key,
             error |-> FALSE]
       ELSE RelayLoopByKey(m, event, source_group, n.it)

\* The loop of on_group_message over monitor_map m from its iterator on, up
\* to its next suspension (a send being awaited) or its end.
RECURSIVE RelayLoop(_, _, _, _)
RelayLoop(m, event, source_group, it) ==
    LET n == IterNext(m, it)
    IN IF n.out = "raise" THEN RelayDone(event, TRUE)
       ELSE IF n.out = "stop" THEN RelayDone(event, FALSE)
       ELSE IF source_group = n.val /\ Len(LiveNodes(event)) > 0
       THEN [pc |-> "sending", event |-> event, it |-> n.it, monitor_group |-> n.key,
             error |-> FALSE]
       ELSE RelayLoop(m, event, source_group, n.it)

RelayAdvance(m, event, it) == RelayLoop(m, event, PyInt(event.group_id), it)

\* The send_group_forward_msg call a relay suspended in "sending" has made.
SendsAfter(r, log) ==
    IF r.pc = "sending"
    THEN Append(log, [op |-> "send_group_forward_msg", group_id |-> r.monitor_group,
                      messages |-> LiveNodes(r.event)])
    ELSE log

NoEvent == [aiocqhttp |-> FALSE, group_id |-> <<>>, sender |-> OtherSender,
            sender_id |-> <<>>, messages |-> <<>>, message_str |-> <<>>]

NoRelay == [pc |-> "idle", event |-> NoEvent, it |-> DictIter(<<>>), monitor_group |-> 0,
            error |-> FALSE]

\* on_group_message(event), up to its first suspension
OnGroupMessage(event) ==
    /\ relay.pc # "sending"
    /\ LET r == IF ~event.aiocqhttp THEN RelayDone(event, FALSE)
                ELSE RelayAdvance(monitor_map, event, DictIter(monitor_map))
       IN /\ relay' = r
          /\ sends' = SendsAfter(r, <<>>)
    /\ failed' = {}
    /\ stable' = Observers(monitor_map, PyInt(event.group_id))
    /\ interleaved' = 0
    /\ cmd' = NoCommand
    /\ UNCHANGED <<monitor_map, audit, tasks, resolve, build, extract, replying>>

\* monitor_map m once the relay is r: the holes of its array are seen by
\* nothing but the iterator of the loop, so when the loop has ended the
\* array is written without them (keys, values and order stay as they are).
Settled(r, m) == IF r.pc = "sending" THEN m ELSE DictResize(m)

\* A variant of SendReturns in which a send that raises is not caught
\* inside the loop, so that the outer except ends the handler.
SendReturnsAbort(raises) ==
    /\ relay.pc = "sending"
    /\ LET r == IF raises THEN RelayDone(relay.event, TRUE)
                ELSE RelayAdvance(monitor_map, relay.event, relay.it)
       IN /\ relay' = r
          /\ sends' = SendsAfter(r, sends)
    /\ failed' = IF raises THEN failed \cup {relay.monitor_group} ELSE failed
    /\ cmd' = NoCommand
    /\ interleaved' = 0
    /\ monitor_map' = Settled(relay', monitor_map)
    /\ UNCHANGED <<stable, audit, tasks, resolve, build, extract, replying>>

\* The awaited send returns or raises (the inner except logs it), and the
\* loop goes on to its next suspension or its end.
SendReturns(raises) ==
    /\ relay.pc = "sending"
    /\ LET r == RelayAdvance(monitor_map, relay.event, relay.it)
       IN /\ relay' = r
          /\ sends' = SendsAfter(r, sends)
    /\ failed' = IF raises THEN failed \cup {relay.monitor_group} ELSE failed
    /\ cmd' = NoCommand
    /\ interleaved' = 0
    /\ monitor_map' = Settled(relay', monitor_map)
    /\ UNCHANGED <<stable, audit, tasks, resolve, build, extract, replying>>

\* A command handler leaves monitor_map as the array m.  A relay suspended
\* in a send stays as it is, and so do the holes of m, which its iterator
\* steps over; the record of a relay that has ended is dropped, and with no
\* iterator left to see them so are the holes.
RegistryChange(m) ==
    /\ UNCHANGED <<audit, tasks, resolve, build, extract, replying>>
    /\ IF relay.pc = "sending"
       THEN /\ interleaved < MaxInterleaved
            /\ interleaved' = interleaved + 1
            /\ monitor_map' = m
            /\ stable' = stable \cap Observers(m, PyInt(relay.event.group_id))
            /\ UNCHANGED <<relay, sends, failed>>
       ELSE /\ monitor_map' = DictResize(m)
            /\ relay' = NoRelay
            /\ sends' = <<>>
            /\ failed' = {}
            /\ stable' = {}
            /\ interleaved' = 0

\* --------------------------------------------------------------- commands
\* start_monitor(event): the 监听 command
StartMonitor(event) ==
    LET group_ids == GetGroupIds(event)
    IN IF Len(group_ids) = 0
       THEN /\ cmd' = Handled("start_monitor", event, <<PlainResult(MsgNoMonitorTarget, <<>>)>>)
            /\ RegistryChange(monitor_map)
       ELSE IF ~IsDigit(event.group_id)
       THEN \* int("") raises ValueError
            /\ cmd' = Handled("start_monitor", event, <<PlainResult(MsgFailed, <<>>)>>)
            /\ RegistryChange(monitor_map)
       ELSE LET monitor_group == PyInt(event.group_id)
                target_group == group_ids[1]
            IN /\ cmd' = Handled("start_monitor", event,
                                 <<PlainResult(MsgMonitorStarted, <<target_group>>)>>)
               /\ \E m \in DictSetOutcomes(monitor_map, monitor_group, target_group) :
                     RegistryChange(m)

\* stop_monitor(event): the 取消监听 command
StopMonitor(event) ==
    IF ~IsDigit(event.group_id)
    THEN /\ cmd' = Handled("stop_monitor", event, <<PlainResult(MsgFailed, <<>>)>>)
         /\ RegistryChange(monitor_map)
    ELSE LET monitor_group == PyInt(event.group_id)
         IN IF DictHas(monitor_map, monitor_group)
            THEN LET target == DictGet(monitor_map, monitor_group)
                 IN /\ cmd' = Handled("stop_monitor", event,
                                      <<PlainResult(MsgMonitorStopped, <<target>>)>>)
                    /\ RegistryChange(DictDel(monitor_map, monitor_group))
            ELSE /\ cmd' = Handled("stop_monitor", event,
                                   <<PlainResult(MsgNotMonitoring, <<>>)>>)
                 /\ RegistryChange(monitor_map)

\* ------------------------------------------------------------------ 抽查
DefaultCount == 20
CountLimit == 1000

\* next((int(arg) for arg in args if arg.isdigit() and int(arg) < 1000), 20)
RECURSIVE FirstCount(_, _)
FirstCount(args, i) ==
    IF i > Len(args) THEN DefaultCount
    ELSE IF IsDigit(args[i]) /\ PyInt(args[i]) < CountLimit THEN PyInt(args[i])
    ELSE FirstCount(args, i + 1)

\* count of check_messages
ParseCount(message_str) == FirstCount(Split(message_str), 1)

RECURSIVE JoinTokens(_)
JoinTokens(tokens) ==
    IF Len(tokens) = 0 THEN <<>> ELSE <<" ">> \o Head(tokens) \o JoinTokens(Tail(tokens))

\* The text "抽查" followed by the given tokens.
AuditText(tokens) == CmdWord("choucha") \o JoinTokens(tokens)

\* The n group ids a command names: those of GroupList, over again when n
\* exceeds their number.
NamedGroups(n) == [k \in 1..n |-> Str(GroupList[((k - 1) % Len(GroupList)) + 1])]

\* The first token of a text that is a number, 0 when there is none.
RECURSIVE FirstNumber(_, _)
FirstNumber(args, i) ==
    IF i > Len(args) THEN 0
    ELSE IF IsDigit(args[i]) THEN PyInt(args[i]) ELSE FirstNumber(args, i + 1)

\* The texts the 抽查 command is issued with: alone, with a short group
\* token and a count, with a large number, with a group id and a count, and
\* with one to MaxTasks group ids.
AuditTexts ==
    {AuditText(<<>>),
     AuditText(<<Str(555), Str(50)>>),
     AuditText(<<Str(1200)>>),
     AuditText(<<Str(GroupList[1]), Str(50)>>)}
    \cup {AuditText(NamedGroups(n)) : n \in 1..MaxTasks}

\* The 抽查 events: issued in a group or in a private chat, the group named
\* in the text or (the last one) in a quoted message.
AuditEvents ==
    {[group_id |-> c, sender_id |-> Str(7), message_str |-> text, messages |-> <<PlainSeg>>] :
        c \in {Str(GroupList[1]), <<>>}, text \in AuditTexts}
    \cup {[group_id |-> Str(GroupList[1]), sender_id |-> Str(7),
           message_str |-> AuditText(<<Str(50)>>),
           messages |-> <<ReplySeg(Str(GroupList[2])), PlainSeg>>]}

\* The calls of check_messages the host makes: it passes the first number of
\* the text as group_id or passes none (0), and a sender filter or none (0).
AuditCalls ==
    UNION {{[event |-> e, group_id |-> g, user_id |-> u] :
                g \in {0, FirstNumber(Split(e.message_str), 1)}, u \in {0, 7, 9}} :
            e \in AuditEvents}

Record(uid, name, content) ==
    [sender |-> [t |-> "dict", user_id |-> uid, nickname |-> name], message |-> content]

CqImageText == CqImagePrefix \o <<"a", "]">>

\* What get_group_msg_history does: it raises, or returns a dict, which has
\* no "messages", or one record that lacks its sender, or two records.
FetchResponses ==
    {[t |-> "raise"],
     [t |-> "dict"],
     [t |-> "dict", messages |-> <<[message |-> StrContent(SomeText)]>>],
     [t |-> "dict", messages |-> <<Record(7, "Alice", StrContent(SomeText)),
                                  Record(8, "Bob", StrContent(CqImageText))>>]}

\* result.get("messages", [])
MessagesOf(result) == IF KeyIn(result, "messages") THEN result.messages ELSE <<>>

NoAudit == [pc |-> "idle", group_id |-> <<>>, message_str |-> <<>>, count |-> 0, user_id |-> 0,
            target_group |-> 0, target_user |-> 0, results |-> <<>>, stopped |-> 0]

\* A check_messages call that ended before it started any task.
AuditEnded(event, count, user_id, results) ==
    [pc |-> "done", group_id |-> event.group_id, message_str |-> event.message_str,
     count |-> count, user_id |-> user_id,
     target_group |-> 0, target_user |-> 0, results |-> results, stopped |-> 1]

\* A check_single(gid) coroutine that gather has yet to start.
NewTask(gid) ==
    [gid |-> gid, pc |-> "start", fetch_calls |-> <<>>, response |-> [t |-> "none"],
     forward_calls |-> <<>>, outcome |-> "pending"]

\* check_messages(event, group_id, user_id), up to `await asyncio.gather`
CheckMessages(event, group_id, user_id) ==
    /\ audit.pc # "gather"
    /\ LET count == ParseCount(event.message_str)
           group_ids == IF group_id # 0 THEN <<group_id>> ELSE GetGroupIds(event)
       IN IF Len(group_ids) = 0
          THEN /\ audit' = AuditEnded(event, count, user_id,
                                      <<PlainResult(MsgNoAuditTarget, <<>>)>>)
               /\ tasks' = <<>>
          ELSE IF ~IsDigit(event.group_id) \/ ~IsDigit(event.sender_id)
          THEN \* int("") raises ValueError
               /\ audit' = AuditEnded(event, count, user_id, <<PlainResult(MsgFailed, <<>>)>>)
               /\ tasks' = <<>>
          ELSE /\ audit' = [pc |-> "gather", group_id |-> event.group_id,
                            message_str |-> event.message_str,
                            count |-> count, user_id |-> user_id,
                            target_group |-> PyInt(event.group_id),
                            target_user |-> PyInt(event.sender_id),
                            results |-> <<>>, stopped |-> 0]
               /\ tasks' = [k \in 1..Len(group_ids) |-> NewTask(group_ids[k])]
    /\ UNCHANGED <<monitor_map, relay, sends, failed, stable, interleaved, cmd,
                   resolve, build, extract, replying>>

\* check_single(gid) starts: it calls get_group_msg_history and awaits it.
TaskFetch(i) ==
    /\ audit.pc = "gather"
    /\ i \in 1..Len(tasks)
    /\ tasks[i].pc = "start"
    /\ tasks' = [tasks EXCEPT ![i].pc = "fetching",
                              ![i].fetch_calls =
                                  Append(@, [group_id |-> tasks[i].gid, count |-> audit.count])]
    /\ UNCHANGED <<monitor_map, relay, sends, failed, stable, interleaved, cmd, audit,
                   resolve, build, extract, replying>>

\* The send_*_forward_msg call check_single makes for its nodes.
ForwardCall(nodes) ==
    IF audit.target_group # 0
    THEN [op |-> "send_group_forward_msg", dest |-> audit.target_group, messages |-> nodes]
    ELSE [op |-> "send_private_forward_msg", dest |-> audit.target_user, messages |-> nodes]

\* A variant of FetchReturns in which a fetch that raises is not caught in
\* check_single, so that gather raises and check_messages reports the
\* failure.
FetchReturnsUncaught(i, response) ==
    /\ audit.pc = "gather"
    /\ i \in 1..Len(tasks)
    /\ tasks[i].pc = "fetching"
    /\ IF response.t = "raise"
       THEN /\ tasks' = [tasks EXCEPT ![i].pc = "done", ![i].response = response,
                                      ![i].outcome = "fetch_failed"]
            /\ audit' = [audit EXCEPT !.pc = "done", !.stopped = 1,
                                      !.results = <<PlainResult(MsgFailed, <<>>)>>]
       ELSE LET nodes == BuildForwardNodes(MessagesOf(response), audit.user_id, TRUE)
            IN /\ audit' = audit
               /\ IF Len(nodes) = 0
                  THEN tasks' = [tasks EXCEPT ![i].pc = "done", ![i].response = response,
                                              ![i].outcome = "no_nodes"]
                  ELSE tasks' = [tasks EXCEPT ![i].pc = "delivering",
                                              ![i].response = response,
                                              ![i].forward_calls = Append(@, ForwardCall(nodes))]
    /\ UNCHANGED <<monitor_map, relay, sends, failed, stable, interleaved, cmd,
                   resolve, build, extract, replying>>

\* get_group_msg_history returns or raises: check_single logs the failure,
\* or builds the nodes and, when there are any, sends them and awaits that.
FetchReturns(i, response) ==
    /\ audit.pc = "gather"
    /\ i \in 1..Len(tasks)
    /\ tasks[i].pc = "fetching"
    /\ IF response.t = "raise"
       THEN tasks' = [tasks EXCEPT ![i].pc = "done", ![i].response = response,
                                   ![i].outcome = "fetch_failed"]
       ELSE LET nodes == BuildForwardNodes(MessagesOf(response), audit.user_id, TRUE)
            IN IF Len(nodes) = 0
               THEN tasks' = [tasks EXCEPT ![i].pc = "done", ![i].response = response,
                                           ![i].outcome = "no_nodes"]
               ELSE tasks' = [tasks EXCEPT ![i].pc = "delivering",
                                           ![i].response = response,
                                           ![i].forward_calls = Append(@, ForwardCall(nodes))]
    /\ UNCHANGED <<monitor_map, relay, sends, failed, stable, interleaved, cmd, audit,
                   resolve, build, extract, replying>>

\* The forward send returns or raises (check_single logs it) and the task ends.
DeliverReturns(i, raises) ==
    /\ audit.pc = "gather"
    /\ i \in 1..Len(tasks)
    /\ tasks[i].pc = "delivering"
    /\ tasks' = [tasks EXCEPT ![i].pc = "done",
                              ![i].outcome = IF raises THEN "deliver_failed" ELSE "delivered"]
    /\ UNCHANGED <<monitor_map, relay, sends, failed, stable, interleaved, cmd, audit,
                   resolve, build, extract, replying>>

\* A variant of AuditJoin that does not wait for the tasks: they are
\* started and the result is yielded at once.
AuditJoinEarly ==
    /\ audit.pc = "gather"
    /\ audit' = [audit EXCEPT !.pc = "done", !.stopped = 1,
                              !.results = <<PlainResult(MsgAuditDone, <<>>)>>]
    /\ UNCHANGED <<monitor_map, relay, sends, failed, stable, interleaved, cmd, tasks,
                   resolve, build, extract, replying>>

\* gather returns once every task has ended; check_messages yields its
\* result and, in finally, stops the event.
AuditJoin ==
    /\ audit.pc = "gather"
    /\ \A i \in 1..Len(tasks) : tasks[i].pc = "done"
    /\ audit' = [audit EXCEPT !.pc = "done", !.stopped = 1,
                              !.results = <<PlainResult(MsgAuditDone, <<>>)>>]
    /\ UNCHANGED <<monitor_map, relay, sends, failed, stable, interleaved, cmd, tasks,
                   resolve, build, extract, replying>>

\* ---------------------------------------------------------- get_group_ids
\* The events get_group_ids is called with: the text of the message itself
\* and, when it quotes one, the text of the quoted message.
OwnTexts ==
    {CmdWord("jianting"), SomeText, CmdWord("jianting") \o <<" ">> \o Str(12345),
     CmdWord("jianting") \o <<" ">> \o Str(GroupList[1]) \o <<" ">> \o Str(GroupList[2])}
    \cup {CmdWord("jianting") \o <<" ">> \o Str(g) : g \in Groups}

QuotedTexts ==
    {<<>>, SomeText, Str(12345), Str(GroupList[3]) \o <<" ">> \o Str(GroupList[1])}
    \cup {Str(g) : g \in Groups}

ResolveEvents ==
    {[message_str |-> own, messages |-> <<PlainSeg>>] : own \in OwnTexts}
    \cup {[message_str |-> own, messages |-> <<ReplySeg(q), PlainSeg>>] :
            own \in OwnTexts, q \in QuotedTexts}

NoResolve == [event |-> [message_str |-> <<>>, messages |-> <<>>], returned |-> FALSE,
              group_ids |-> <<>>]

\* get_group_ids(event) is called and returns
Resolve ==
    /\ ~resolve.returned
    /\ resolve' = [resolve EXCEPT !.returned = TRUE, !.group_ids = GetGroupIds(resolve.event)]
    /\ UNCHANGED <<monitor_map, relay, sends, failed, stable, interleaved, cmd, audit, tasks,
                   build, extract, replying>>

\* ----------------------------------------------------- build_forward_nodes
\* Number of records in one call of build_forward_nodes.
MaxRecords == 3

ImageUrl == <<"u">>

\* The records of a history: text, text with a CQ image code, a segment
\* list with a text and an image, a record without sender, one without
\* message, one whose sender is no dict, and one whose sender has neither
\* user_id nor nickname.
BuildRecords ==
    {Record(7, "Alice", StrContent(SomeText)),
     Record(8, "Bob", StrContent(SomeText \o CqImageText)),
     Record(7, "Carol", ListContent(<<TextSegment(SomeText), ImageSegment(ImageUrl)>>)),
     [message |-> StrContent(SomeText)],
     [sender |-> DictSender],
     [sender |-> OtherSender, message |-> StrContent(SomeText)],
     [sender |-> [t |-> "dict"], message |-> StrContent(<<"y">>)]}

RECURSIVE SeqsUpTo(_, _)
SeqsUpTo(S, n) ==
    IF n = 0 THEN {<<>>}
    ELSE LET shorter == SeqsUpTo(S, n - 1)
         IN shorter \cup {Append(q, x) : q \in shorter, x \in S}

\* The calls of build_forward_nodes: the records, the sender filter (0 for
\* none) and include_images.
BuildCalls ==
    {[messages |-> m, user_id |-> u, include_images |-> b, returned |-> FALSE, nodes |-> <<>>] :
        m \in SeqsUpTo(BuildRecords, MaxRecords), u \in {0, 7}, b \in BOOLEAN}

NoBuild == [messages |-> <<>>, user_id |-> 0, include_images |-> TRUE, returned |-> TRUE,
            nodes |-> <<>>]

\* build_forward_nodes(messages, user_id, include_images) returns
Build ==
    /\ ~build.returned
    /\ build' = [build EXCEPT !.returned = TRUE,
                              !.nodes = BuildForwardNodes(build.messages, build.user_id,
                                                          build.include_images)]
    /\ UNCHANGED <<monitor_map, relay, sends, failed, stable, interleaved, cmd, audit, tasks,
                   resolve, extract, replying>>

\* ------------------------------------------------------- extract_group_ids
\* Number of pieces a text is put together from.
MaxPieces == 2

\* n times the digit 1
Ones(n) == [k \in 1..n |-> "1"]

\* The pieces of a text: a letter, a blank, and digit runs of 5, 6, 10, 11
\* and 16 digits (adjacent runs make one longer run).
TextPieces ==
    {<<"a">>, <<" ">>, <<"1", "0", "0", "0", "0", "0">>}
    \cup {Ones(n) : n \in {5, 6, 10, 11, 16}}

RECURSIVE Concat(_)
Concat(pieces) == IF Len(pieces) = 0 THEN <<>> ELSE Head(pieces) \o Concat(Tail(pieces))

\* The texts extract_group_ids is called with.
ExtractTexts == {Concat(q) : q \in SeqsUpTo(TextPieces, MaxPieces)}

NoExtract == [text |-> <<>>, returned |-> TRUE, ids |-> <<>>]

\* extract_group_ids(text) returns
Extract ==
    /\ ~extract.returned
    /\ extract' = [extract EXCEPT !.returned = TRUE, !.ids = ExtractGroupIds(extract.text)]
    /\ UNCHANGED <<monitor_map, relay, sends, failed, stable, interleaved, cmd, audit, tasks,
                   resolve, build, replying>>

\* ------------------------------------------------------------------ 回复
\* Number of groups one 回复 names.
MaxReplyGroups == 3

\* "请在回复后面加上要回复的内容", "未指定要回复的群号",
\* "已将消息转发到 {success_count}/{len(group_ids)} 个群"
MsgReplyNoText == "reply_no_text"
MsgReplyNoTarget == "reply_no_target"
MsgReplied == "replied"

\* The prefix "回复 ".
ReplyPrefix == CmdWord("huifu") \o <<" ">>

\* str.removeprefix(prefix)
RemovePrefix(s, prefix) ==
    IF LiteralAt(s, 1, prefix) THEN SubSeq(s, Len(prefix) + 1, Len(s)) ELSE s

\* str.strip()
RECURSIVE LStrip(_)
LStrip(s) == IF Len(s) > 0 /\ IsSpaceChar(Head(s)) THEN LStrip(Tail(s)) ELSE s

RECURSIVE RStrip(_)
RStrip(s) ==
    IF Len(s) > 0 /\ IsSpaceChar(s[Len(s)]) THEN RStrip(SubSeq(s, 1, Len(s) - 1)) ELSE s

Strip(s) == RStrip(LStrip(s))

\* The text "回复" followed by the given tokens.
ReplyTextOf(tokens) == CmdWord("huifu") \o JoinTokens(tokens)

\* The 回复 events: the command alone, followed by blanks, by a text, by a
\* text and group ids; quoting nothing, a text, or a message naming groups.
ReplyEvents ==
    {[group_id |-> Str(GroupList[1]), message_str |-> text, messages |-> segs] :
        text \in {ReplyTextOf(<<>>), CmdWord("huifu") \o <<" ", " ">>, ReplyTextOf(<<SomeText>>)}
                 \cup {ReplyTextOf(<<SomeText>> \o NamedGroups(n)) : n \in 1..MaxReplyGroups},
        segs \in {<<PlainSeg>>, <<ReplySeg(SomeText), PlainSeg>>}
                 \cup {<<ReplySeg(Tail(JoinTokens(NamedGroups(n)))), PlainSeg>> :
                         n \in 1..MaxReplyGroups}}

NoReply == [pc |-> "idle", event |-> [message_str |-> <<>>, messages |-> <<>>],
            msg |-> <<>>, group_ids |-> <<>>, send_calls |-> <<>>, raised |-> {},
            success_count |-> 0, results |-> <<>>, stopped |-> 0]

\* The send_group_msg call for the k-th group of a reply r, when it has one.
ReplySends(r, k) ==
    IF k <= Len(r.group_ids)
    THEN Append(r.send_calls, [group_id |-> r.group_ids[k], message |-> r.msg])
    ELSE r.send_calls

\* reply(event), up to its first send
Reply(event) ==
    /\ replying.pc # "sending"
    /\ LET msg == Strip(RemovePrefix(event.message_str, ReplyPrefix))
           group_ids == GetGroupIds(event)
           r == [NoReply EXCEPT !.event = [message_str |-> event.message_str,
                                           messages |-> event.messages],
                                !.msg = msg]
       IN IF Len(msg) = 0
          THEN replying' = [r EXCEPT !.pc = "done", !.stopped = 1,
                                     !.results = <<PlainResult(MsgReplyNoText, <<>>)>>]
          ELSE IF Len(group_ids) = 0
          THEN replying' = [r EXCEPT !.pc = "done", !.stopped = 1,
                                     !.results = <<PlainResult(MsgReplyNoTarget, <<>>)>>]
          ELSE replying' = [r EXCEPT !.pc = "sending", !.group_ids = group_ids,
                                     !.send_calls =
                                         ReplySends([r EXCEPT !.group_ids = group_ids], 1)]
    /\ UNCHANGED <<monitor_map, relay, sends, failed, stable, interleaved, cmd, audit, tasks,
                   resolve, build, extract>>

\* A variant of ReplySendReturns in which a send that raises is not caught
\* inside the loop, so that the outer except reports the failure and no
\* further group is sent to.
ReplySendReturnsStop(raises) ==
    /\ replying.pc = "sending"
    /\ LET k == Len(replying.send_calls)
           r == [replying EXCEPT
                    !.success_count = IF raises THEN @ ELSE @ + 1,
                    !.raised = IF raises THEN @ \cup {k} ELSE @]
       IN IF raises
          THEN replying' = [r EXCEPT !.pc = "done", !.stopped = 1,
                                     !.results = <<PlainResult(MsgFailed, <<>>)>>]
          ELSE IF k < Len(r.group_ids)
          THEN replying' = [r EXCEPT !.send_calls = ReplySends(r, k + 1)]
          ELSE replying' = [r EXCEPT !.pc = "done", !.stopped = 1,
                                     !.results = <<PlainResult(MsgReplied,
                                                     <<r.success_count, Len(r.group_ids)>>)>>]
    /\ UNCHANGED <<monitor_map, relay, sends, failed, stable, interleaved, cmd, audit, tasks,
                   resolve, build, extract>>

\* The awaited send_group_msg returns or raises (the inner except logs it);
\* the loop makes its next send or, after the last group, reply yields its
\* summary and stops the event.
ReplySendReturns(raises) ==
    /\ replying.pc = "sending"
    /\ LET k == Len(replying.send_calls)
           r == [replying EXCEPT
                    !.success_count = IF raises THEN @ ELSE @ + 1,
                    !.raised = IF raises THEN @ \cup {k} ELSE @]
       IN IF k < Len(r.group_ids)
          THEN replying' = [r EXCEPT !.send_calls = ReplySends(r, k + 1)]
          ELSE replying' = [r EXCEPT !.pc = "done", !.stopped = 1,
                                     !.results = <<PlainResult(MsgReplied,
                                                     <<r.success_count, Len(r.group_ids)>>)>>]
    /\ UNCHANGED <<monitor_map, relay, sends, failed, stable, interleaved, cmd, audit, tasks,
                   resolve, build, extract>>

\* --------------------------------------------------------- specifications
\* The plugin after __init__.
Init ==
    /\ monitor_map = <<>>
    /\ relay = NoRelay
    /\ sends = <<>>
    /\ failed = {}
    /\ stable = {}
    /\ interleaved = 0
    /\ cmd = NoCommand
    /\ audit = NoAudit
    /\ tasks = <<>>
    /\ resolve = [NoResolve EXCEPT !.returned = TRUE]
    /\ build = NoBuild
    /\ extract = NoExtract
    /\ replying = NoReply

\* The host hands events to the handlers as they arrive: a command handler
\* may run while on_group_message is suspended in a send.
Next ==
    \/ \E event \in StartMonitorEvents : StartMonitor(event)
    \/ \E event \in StopMonitorEvents : StopMonitor(event)
    \/ \E event \in LiveEvents : OnGroupMessage(event)
    \/ \E raises \in BOOLEAN : SendReturns(raises)

Spec == Init /\ [][Next]_vars

\* The same handlers when no command arrives while on_group_message is
\* suspended: each event is handled to its end before the next one.
NextSerial ==
    \/ /\ relay.pc # "sending"
       /\ \E event \in StartMonitorEvents : StartMonitor(event)
    \/ /\ relay.pc # "sending"
       /\ \E event \in StopMonitorEvents : StopMonitor(event)
    \/ \E event \in LiveEvents : OnGroupMessage(event)
    \/ \E raises \in BOOLEAN : SendReturns(raises)

SpecSerial == Init /\ [][NextSerial]_vars

\* The 抽查 command: the tasks of one call run in any order, one call after
\* the other.
NextAudit ==
    \/ \E call \in AuditCalls : CheckMessages(call.event, call.group_id, call.user_id)
    \/ \E i \in 1..MaxTasks : TaskFetch(i)
    \/ \E i \in 1..MaxTasks, response \in FetchResponses : FetchReturns(i, response)
    \/ \E i \in 1..MaxTasks, raises \in BOOLEAN : DeliverReturns(i, raises)
    \/ AuditJoin

SpecAudit == Init /\ [][NextAudit]_vars

\* get_group_ids applied to each of ResolveEvents.
InitResolve ==
    /\ monitor_map = <<>>
    /\ relay = NoRelay
    /\ sends = <<>>
    /\ failed = {}
    /\ stable = {}
    /\ interleaved = 0
    /\ cmd = NoCommand
    /\ audit = NoAudit
    /\ tasks = <<>>
    /\ resolve \in {[NoResolve EXCEPT !.event = e] : e \in ResolveEvents}
    /\ build = NoBuild
    /\ extract = NoExtract
    /\ replying = NoReply

SpecResolve == InitResolve /\ [][Resolve]_vars

\* build_forward_nodes applied to each of BuildCalls.
InitBuild ==
    /\ monitor_map = <<>>
    /\ relay = NoRelay
    /\ sends = <<>>
    /\ failed = {}
    /\ stable = {}
    /\ interleaved = 0
    /\ cmd = NoCommand
    /\ audit = NoAudit
    /\ tasks = <<>>
    /\ resolve = [NoResolve EXCEPT !.returned = TRUE]
    /\ build \in BuildCalls
    /\ extract = NoExtract
    /\ replying = NoReply

SpecBuild == InitBuild /\ [][Build]_vars

\* extract_group_ids applied to each of ExtractTexts.
InitExtract ==
    /\ monitor_map = <<>>
    /\ relay = NoRelay
    /\ sends = <<>>
    /\ failed = {}
    /\ stable = {}
    /\ interleaved = 0
    /\ cmd = NoCommand
    /\ audit = NoAudit
    /\ tasks = <<>>
    /\ resolve = [NoResolve EXCEPT !.returned = TRUE]
    /\ build = NoBuild
    /\ extract \in {[NoExtract EXCEPT !.text = t, !.returned = FALSE] : t \in ExtractTexts}
    /\ replying = NoReply

SpecExtract == InitExtract /\ [][Extract]_vars

\* The 回复 command, one call after the other.
NextReply ==
    \/ \E event \in ReplyEvents : Reply(event)
    \/ \E raises \in BOOLEAN : ReplySendReturns(raises)

SpecReply == Init /\ [][NextReply]_vars

\* The steps by which a 抽查 in progress goes on, and those of a 回复.
AuditProgress ==
    \/ \E i \in 1..MaxTasks : TaskFetch(i)
    \/ \E i \in 1..MaxTasks, response \in FetchResponses : FetchReturns(i, response)
    \/ \E i \in 1..MaxTasks, raises \in BOOLEAN : DeliverReturns(i, raises)
    \/ AuditJoin

ReplyProgress == \E raises \in BOOLEAN : ReplySendReturns(raises)

\* The four command handlers, each kind run from the state the plugin
\* starts in: 抽查 and 回复 neither read nor write monitor_map, and no
\* handler reads what a call of another has left.
NextCommands ==
    \/ /\ audit = NoAudit /\ replying = NoReply
       /\ \E event \in StartMonitorEvents : StartMonitor(event)
    \/ /\ audit = NoAudit /\ replying = NoReply
       /\ \E event \in StopMonitorEvents : StopMonitor(event)
    \/ /\ cmd = NoCommand /\ replying = NoReply
       /\ NextAudit
    \/ /\ cmd = NoCommand /\ audit = NoAudit
       /\ NextReply

\* The event loop runs every task that can go on, and a call of the host
\* that is awaited returns or raises.
SpecCommands ==
    Init /\ [][NextCommands]_vars /\ WF_vars(AuditProgress) /\ WF_vars(ReplyProgress)

\* ----------------------------------------------------------------- claims
\* The number of send_group_forward_msg calls the relay made to group g.
Attempts(g) == Cardinality({i \in 1..Len(sends) : sends[i].group_id = g})

\* The source group of the relay's event.
Source == PyInt(relay.event.group_id)

\* C1: when no command runs during the handling of a live group message
\* from group S, the handler has made exactly one delivery attempt to every
\* observer whose registry entry is S when it ends, and none to any other
\* group (the message being one of the platform the handler serves).
C1_FanOutExact ==
    (relay.pc = "done" /\ relay.event.aiocqhttp) =>
        /\ \A g \in Groups :
              Attempts(g) = IF g \in Observers(monitor_map, Source) THEN 1 ELSE 0
        /\ \A i \in 1..Len(sends) : sends[i].group_id \in Groups

\* A relay that fanned one event out to the two observers of its source,
\* while a third group of the platform got nothing.
C1_Witness ==
    /\ relay.pc = "done"
    /\ Cardinality(Observers(monitor_map, Source)) = 2
    /\ \A o \in Observers(monitor_map, Source) : Attempts(o) = 1
    /\ \E g \in Groups : g \notin Observers(monitor_map, Source) /\ Attempts(g) = 0

\* C2 (as claimed): for a live event whose message contains a Reply segment
\* on_group_message makes no send.
C2_ReplyNeverRelayed == HasReply(relay.event.messages) => Len(sends) = 0

\* C3 (as claimed): for a live event whose textual body is empty
\* on_group_message makes no send.
C3_EmptyTextNeverRelayed ==
    (relay.pc # "idle" /\ Len(relay.event.message_str) = 0) => Len(sends) = 0

\* C4 (as claimed): a relay during which commands ran has, when it ends,
\* attempted delivery to every observer that was mapped to the source group
\* when it began and stayed mapped until it ended.
C4_StableObserversServed ==
    (relay.pc = "done" /\ relay.event.aiocqhttp) => \A o \in stable : Attempts(o) >= 1

\* C5: when a send to one observer of the source group raises, the relay
\* still ends by the end of its loop, not in the outer except, having made
\* its one delivery attempt to every observer mapped to the source group
\* (no command running during the relay).
C5_FailureIsolation ==
    (relay.pc = "done" /\ failed # {}) =>
        /\ ~relay.error
        /\ \A o \in Observers(monitor_map, Source) : Attempts(o) = 1

\* A relay whose first send raised and which then made its second send.
C5_Witness ==
    /\ relay.pc = "done"
    /\ Len(sends) = 2
    /\ sends[1].group_id \in failed
    /\ sends[2].group_id # sends[1].group_id

\* The nodes check_single builds from the response task i got.
TaskNodes(i) == BuildForwardNodes(MessagesOf(tasks[i].response), audit.user_id, TRUE)

\* C6: in 抽查, whatever the other groups' tasks did (a fetch or a send that
\* raised, an empty node list), every task that got its response has called
\* the fetch of its own group exactly once and has sent exactly one bundle,
\* of its own nodes and to the destination, when its fetch returned a
\* non-empty node list, and none otherwise; and the call ends only when
\* every task it started has ended.
C6_AuditIsolation ==
    /\ \A i \in 1..Len(tasks) :
          tasks[i].pc \in {"delivering", "done"} =>
              /\ Len(tasks[i].fetch_calls) = 1
              /\ tasks[i].fetch_calls[1].group_id = tasks[i].gid
              /\ Len(tasks[i].forward_calls) =
                    IF tasks[i].response.t = "dict" /\ Len(TaskNodes(i)) > 0 THEN 1 ELSE 0
              /\ \A k \in 1..Len(tasks[i].forward_calls) :
                    /\ tasks[i].forward_calls[k].dest = audit.target_group
                    /\ tasks[i].forward_calls[k].messages = TaskNodes(i)
    /\ (audit.pc = "done" /\ Len(tasks) > 0) => \A i \in 1..Len(tasks) : tasks[i].pc = "done"

\* A finished 抽查 over three groups: the fetch of the first raised, the
\* second had no nodes, the send of the third raised or went through.
C6_Witness ==
    /\ audit.pc = "done"
    /\ Len(tasks) = 3
    /\ tasks[1].outcome = "fetch_failed"
    /\ tasks[2].outcome = "no_nodes"
    /\ tasks[3].outcome = "delivered"
    /\ Len(tasks[3].forward_calls) = 1

\* The number of groups whose bundle was delivered.
Succeeded == Cardinality({i \in 1..Len(tasks) : tasks[i].outcome = "delivered"})

\* C7 (as claimed): the result 抽查 reports after its tasks states how many
\* source groups succeeded out of how many were requested.
C7_SummaryCounts ==
    (audit.pc = "done" /\ Len(tasks) > 0) =>
        /\ Len(audit.results) = 1
        /\ audit.results[1].args = <<Succeeded, Len(tasks)>>

\* C8 (as claimed): the count passed to the history fetch is the count
\* token when the text has a group token followed by a count token, 20 when
\* the text has no numeric token, and never a numeric token of 1000 or more.
C8_CountIsCountToken ==
    LET args == Split(audit.message_str)
    IN \A i \in 1..Len(tasks) : \A k \in 1..Len(tasks[i].fetch_calls) :
          LET count == tasks[i].fetch_calls[k].count
          IN /\ (/\ Len(args) = 3
                 /\ IsDigit(args[2])
                 /\ IsDigit(args[3]) /\ PyInt(args[3]) < 1000) => count = PyInt(args[3])
             /\ (\A j \in 1..Len(args) : ~IsDigit(args[j])) => count = 20
             /\ \A j \in 1..Len(args) :
                   (IsDigit(args[j]) /\ PyInt(args[j]) >= 1000) => count # PyInt(args[j])

\* C9 (as claimed): get_group_ids returns the ids of the quoted message's
\* text when there are any, and otherwise (no quote, or a quote whose text
\* names no group) the ids of the message's own text.
C9_QuoteFallback ==
    resolve.returned =>
        LET quoted == IF HasReply(resolve.event.messages)
                      THEN ExtractGroupIds(FirstReply(resolve.event.messages).message_str)
                      ELSE <<>>
        IN resolve.group_ids = IF Len(quoted) > 0 THEN quoted
                               ELSE ExtractGroupIds(resolve.event.message_str)

\* No two entries of monitor_map have the same key.
KeysUnique(m) ==
    \A i, j \in 1..Len(m) : (m[i] # Hole /\ m[i].key = m[j].key) => i = j

\* Observer k has the same registry entry, or none, in m and in n.
SameEntry(m, n, k) ==
    /\ DictHas(m, k) = DictHas(n, k)
    /\ DictHas(m, k) => DictGet(m, k) = DictGet(n, k)

\* What a 监听 issued in group o that resolved target t has done.
Registered(o, t) ==
    /\ KeysUnique(monitor_map')
    /\ DictHas(monitor_map', o) /\ DictGet(monitor_map', o) = t
    /\ \A g \in Groups : (o \in Observers(monitor_map', g)) = (g = t)
    /\ \A k \in Groups \ {o} : SameEntry(monitor_map, monitor_map', k)
    /\ DictUsed(monitor_map') = Cardinality(DictKeys(monitor_map'))

\* C10: every observer has at most one target in every reachable state, and
\* a 监听 issued in group o that resolves target t leaves o mapped to exactly
\* t (an observer of t and of no other group, whatever it was mapped to
\* before) and leaves the entries of all other observers as they were.
C10_RegisterSemantics ==
    /\ []KeysUnique(monitor_map)
    /\ [][\A event \in StartMonitorEvents :
            LET group_ids == GetGroupIds(event)
            IN (/\ cmd'.handler = "start_monitor"
                /\ cmd'.group_id = event.group_id
                /\ IsDigit(event.group_id)
                /\ Len(group_ids) > 0
                /\ cmd'.results = <<PlainResult(MsgMonitorStarted, <<group_ids[1]>>)>>
                /\ StartMonitor(event))
               => Registered(PyInt(event.group_id), group_ids[1])]_vars

\* The latest step re-registered the observer that registered first, and it
\* now shares its target with the observer that registered after it.
C10_Witness ==
    /\ cmd.handler = "start_monitor"
    /\ cmd.results[1].text = MsgMonitorStarted
    /\ Len(monitor_map) = 2
    /\ monitor_map[1].key = PyInt(cmd.group_id)
    /\ monitor_map[1].val = cmd.results[1].args[1]
    /\ monitor_map[2].val = monitor_map[1].val

\* What a 取消监听 issued in group o has done and reported.
Unregistered(o) ==
    IF DictHas(monitor_map, o)
    THEN /\ ~DictHas(monitor_map', o)
         /\ \A k \in Groups \ {o} : SameEntry(monitor_map, monitor_map', k)
         /\ DictUsed(monitor_map') = DictUsed(monitor_map) - 1
         /\ cmd'.results = <<PlainResult(MsgMonitorStopped, <<DictGet(monitor_map, o)>>)>>
    ELSE /\ DictResize(monitor_map') = DictResize(monitor_map)
         /\ cmd'.results = <<PlainResult(MsgNotMonitoring, <<>>)>>

\* C11: a 取消监听 issued in a group that has no registry entry leaves the
\* registry as it was and reports that the group is not monitoring; issued
\* in a group that has an entry it removes that entry and no other, and
\* reports the target the entry had.
C11_UnregisterSemantics ==
    [][\A event \in StopMonitorEvents :
          (/\ cmd'.handler = "stop_monitor"
           /\ cmd'.group_id = event.group_id
           /\ IsDigit(event.group_id)
           /\ StopMonitor(event))
          => Unregistered(PyInt(event.group_id))]_vars

\* The latest step removed the entry of one observer and left the entry of
\* the other observer, which has the same target, in the registry.
C11_Witness ==
    /\ cmd.handler = "stop_monitor"
    /\ cmd.results[1].text = MsgMonitorStopped
    /\ DictUsed(monitor_map) = 1
    /\ ~DictHas(monitor_map, PyInt(cmd.group_id))
    /\ \E k \in Groups : DictHas(monitor_map, k) /\ DictGet(monitor_map, k) = cmd.results[1].args[1]

\* The text "[来自群<source group id>的<sender display name>]\n<text>" of a
\* live event.
RelayText(event) ==
    <<"[", "laiziqun">> \o event.group_id \o <<"de", event.sender.nickname, "]", "\n">>
    \o event.message_str

\* C12 (as claimed): what on_group_message sends to an observer is one
\* plain text message "[来自群<source>的<sender>]\n<text>", sent by the
\* plain-message operation, and not a bundle of forward nodes.
C12_RelayIsPlainText ==
    \A i \in 1..Len(sends) :
        /\ sends[i].op = "send_group_msg"
        /\ sends[i].messages = RelayText(relay.event)

\* C13 (as claimed): every bundle of a 抽查 goes to the group the command
\* was issued in, or, when it was issued in a private chat, to the invoking
\* user as a private forward; and a 抽查 issued in a private chat does not
\* end in the failure result.
C13_AuditDestination ==
    /\ \A i \in 1..Len(tasks) : \A k \in 1..Len(tasks[i].forward_calls) :
          LET call == tasks[i].forward_calls[k]
          IN IF Len(audit.group_id) > 0
             THEN call.op = "send_group_forward_msg" /\ call.dest = PyInt(audit.group_id)
             ELSE call.op = "send_private_forward_msg" /\ call.dest = audit.target_user
    /\ (audit.pc = "done" /\ Len(audit.group_id) = 0) => audit.results[1].text # MsgFailed

\* Whether the claim has record msg emit a node under sender filter user_id
\* (0: none): it has a sender and a message, its sender id is the filter's,
\* and its processing does not raise (its sender is a dict).
Emits(msg, user_id) ==
    /\ KeyIn(msg, "sender") /\ KeyIn(msg, "message")
    /\ msg.sender.t = "dict"
    /\ user_id # 0 => (KeyIn(msg.sender, "user_id") /\ msg.sender.user_id = user_id)

\* The index in build.messages of the record that emits the k-th node.
EmittingIndex(k) ==
    CHOOSE i \in 1..Len(build.messages) :
        /\ Emits(build.messages[i], build.user_id)
        /\ Cardinality({j \in 1..i : Emits(build.messages[j], build.user_id)}) = k

\* C14: build_forward_nodes returns one node for each record that has a
\* sender and a message and passes the sender filter, in the order of the
\* records, each with the name, id and content of its own record, and no
\* node for a record that lacks a field, fails the filter or raises.
C14_OneNodePerRecord ==
    build.returned =>
        /\ Len(build.nodes) =
              Cardinality({i \in 1..Len(build.messages) :
                              Emits(build.messages[i], build.user_id)})
        /\ \A k \in 1..Len(build.nodes) :
              LET msg == build.messages[EmittingIndex(k)]
              IN /\ build.nodes[k].type = "node"
                 /\ build.nodes[k].data.name =
                       IF KeyIn(msg.sender, "nickname") THEN msg.sender.nickname
                       ELSE UnknownUser
                 /\ build.nodes[k].data.uin =
                       IF KeyIn(msg.sender, "user_id") THEN msg.sender.user_id ELSE 0
                 /\ build.nodes[k].data.content = NodeContent(msg, build.include_images)

\* A call whose second record raised (its sender is no dict) and whose
\* first and third records each gave their node.
C14_Witness ==
    /\ build.returned
    /\ Len(build.messages) = 3
    /\ KeyIn(build.messages[2], "sender") /\ build.messages[2].sender.t = "obj"
    /\ Len(build.nodes) = 2
    /\ build.nodes[1].data.name = "Alice"
    /\ build.nodes[2].data.name = "Bob"

\* C15 (as claimed): the content conversion of build_forward_nodes applied
\* to the content of a node it has built gives that content again.
C15_NormalizeIdempotent ==
    (build.returned /\ build.include_images) =>
        \A k \in 1..Len(build.nodes) :
            LET content == build.nodes[k].data.content
            IN NodeContent([sender |-> DictSender, message |-> content], TRUE) = content

\* The segments of a list of kind text or image.
TextAndImages(l) == SelectSeq(l, LAMBDA seg : seg.type \in {"text", "image"})

\* C19 (as claimed): the node built for a record whose content is a segment
\* list with text and image segments has every text segment and every image
\* segment of the record in its content, in the record's order.
C19_StructuredKeepsText ==
    (build.returned /\ build.include_images) =>
        \A k \in 1..Len(build.nodes) :
            LET msg == build.messages[EmittingIndex(k)]
                content == build.nodes[k].data.content
            IN msg.message.t = "list" =>
                  /\ content.t = "list"
                  /\ TextAndImages(content.l) = TextAndImages(msg.message.l)

\* Number of digits from position i of s on.
RECURSIVE DigitsFrom(_, _)
DigitsFrom(s, i) ==
    IF i > Len(s) \/ ~IsDigitChar(s[i]) THEN 0 ELSE 1 + DigitsFrom(s, i + 1)

\* The maximal runs of 6 to 10 digits of s from position i on, as numbers.
RECURSIVE MaximalRuns(_, _)
MaximalRuns(s, i) ==
    IF i > Len(s) THEN <<>>
    ELSE LET n == DigitsFrom(s, i)
         IN IF n = 0 THEN MaximalRuns(s, i + 1)
            ELSE (IF n >= 6 /\ n <= 10 THEN <<PyInt(SubSeq(s, i, i + n - 1))>> ELSE <<>>)
                 \o MaximalRuns(s, i + n)

\* C16 (as claimed): extract_group_ids returns the maximal digit runs of
\* its text that are 6 to 10 digits long, from left to right and with
\* duplicates; a shorter or a longer run gives nothing.
C16_MaximalRuns == extract.returned => extract.ids = MaximalRuns(extract.text, 1)

C18_AuditBarrier ==
    /\ [](audit.results = <<PlainResult(MsgAuditDone, <<>>)>> =>
            \A i \in 1..Len(tasks) :
                /\ tasks[i].pc = "done"
                /\ tasks[i].outcome # "pending"
                /\ Len(tasks[i].fetch_calls) = 1)
    /\ [][(audit.pc = "done" /\ audit' = audit) => tasks' = tasks]_vars

\* A finished 抽查 over three groups whose tasks ended differently: one
\* delivered, one failed to deliver, one failed to fetch.
C18_Witness ==
    /\ audit.results = <<PlainResult(MsgAuditDone, <<>>)>>
    /\ Len(tasks) = 3
    /\ tasks[1].outcome = "delivered"
    /\ tasks[2].outcome = "deliver_failed"
    /\ tasks[3].outcome = "fetch_failed"

\* The calls of the command handlers that have ended, as the results they
\* yielded and the number of stop_event calls they made.
EndedCalls ==
    (IF cmd.handler # "none" THEN {[results |-> cmd.results, stopped |-> cmd.stopped]} ELSE {})
    \cup (IF audit.pc = "done"
          THEN {[results |-> audit.results, stopped |-> audit.stopped]} ELSE {})
    \cup (IF replying.pc = "done"
          THEN {[results |-> replying.results, stopped |-> replying.stopped]} ELSE {})

\* C20: every call of 抽查, 回复, 监听 or 取消监听 ends, and has then
\* called event.stop_event() once and yielded at least one result, whether
\* it ran to its end, returned an advisory or raised inside (a command
\* issued where there is no group id yields the failure result); before it
\* ends it has not stopped the event.
C20_HandlersStopOnce ==
    /\ [](/\ \A c \in EndedCalls : c.stopped = 1 /\ Len(c.results) >= 1
          /\ audit.pc = "gather" => audit.stopped = 0
          /\ replying.pc = "sending" => replying.stopped = 0
          /\ (cmd.handler # "none" /\ Len(cmd.group_id) = 0 /\ Len(cmd.results) = 1
              /\ cmd.results[1].text # MsgNoMonitorTarget)
                => cmd.results[1].text = MsgFailed)
    /\ (audit.pc = "gather") ~> (audit.pc = "done")
    /\ (replying.pc = "sending") ~> (replying.pc = "done")

\* A 取消监听 issued in a private chat: int("") raised, the handler yielded
\* the failure result and stopped the event.
C20_Witness ==
    /\ cmd.handler = "stop_monitor"
    /\ Len(cmd.group_id) = 0
    /\ cmd.results = <<PlainResult(MsgFailed, <<>>)>>
    /\ cmd.stopped = 1

====
